---- MODULE Spec2Model ----
(***************************************************************************)
(* A model of dns_query_tool.py: the script body (__main__), the query     *)
(* loop perform_dns_queries, the single-query executor test_dns_query,     *)
(* the progress reporter update_screen, and the summariser                 *)
(* calculate_metrics / print_summary.                                      *)
(*                                                                         *)
(* The environment (the DNS resolver, the clock, the log file's write) is  *)
(* nondeterministic: resolver.resolve either returns after some measured   *)
(* time or raises, and each log_file.write either appends or raises.       *)
(*                                                                         *)
(* Floats are modelled as exact rationals <<"f", n, d>> (n/d).  The only   *)
(* place where rounding could matter is int(bar_length * progress) in      *)
(* update_screen; for IEEE doubles int(30 * (c / t)) = (30 * c) \div t for *)
(* every 1 <= c <= t < 2^40: when 30c/t is not an integer it is at least   *)
(* 1/t away from one, far more than the rounding error, and when it is an  *)
(* integer k the double c/t is the double k/30, for which 30 * (k/30)      *)
(* rounds to k exactly for each k in 1..30.                                *)
(***************************************************************************)
EXTENDS Integers, Sequences, FiniteSets, TLC

\* ---------------------------------------------------------------- bounds
MaxQueries == 5

\* the command-line values the model draws from
Timeouts == {0, 1}
\* measured query times in milliseconds (time.time() differences)
Latencies == {0, 10}

\* ---------------------------------------------------------------- values
None == <<"None">>
\* a name not yet assigned
Unset == [kind |-> "unset"]
Float(n, d) == <<"f", n, d>>
IsZero(x) == x[2] = 0
\* Python truthiness of an Optional[float]: None and 0.0 are falsy
Truthy(x) == x # None /\ ~IsZero(x)

RECURSIVE SumNum(_)
SumNum(s) == IF s = <<>> THEN 0 ELSE Head(s)[2] + SumNum(Tail(s))

\* a <= b for floats with positive denominators
FloatLeq(a, b) == a[2] * b[3] <= b[2] * a[3]
MaxOf(s) == CHOOSE x \in {s[k] : k \in 1..Len(s)} :
               \A k \in 1..Len(s) : FloatLeq(s[k], x)
MinOf(s) == CHOOSE x \in {s[k] : k \in 1..Len(s)} :
               \A k \in 1..Len(s) : FloatLeq(x, s[k])

\* what resolver.resolve can do: return after a measured time, or raise
ResolveOutcomes ==
    {[ok |-> TRUE, query_time |-> Float(l, 1)] : l \in Latencies}
        \cup {[ok |-> FALSE, query_time |-> None]}

VARIABLES
    pc,                \* position in the script
    debug_mode,        \* args.debug
    number_of_queries, \* args.queries
    timeout,           \* args.timeout
    resolver,          \* the configured resolver (line 184)
    log_file,          \* "unset", "none" (None), "open" or "closed"
    log,               \* the lines the log file holds
    closeCount,        \* calls of log_file.close()
    writeErrors,       \* log_file.write calls that raised
    i,                 \* completed iterations of the loop (i + 1 is the query number)
    success_count,
    failure_count,
    response_times,
    ret,               \* the pending return value of test_dns_query
    resolveCalls,      \* query numbers for which resolver.resolve was invoked
    resolved,          \* what each of those invocations did
    returned,          \* what test_dns_query returned for each completed call
    screen,            \* the calls of update_screen, with the cells drawn
    metrics,           \* (max, min, avg) of calculate_metrics
    summary            \* the report of print_summary

vars == <<pc, debug_mode, number_of_queries, timeout, resolver, log_file, log,
          closeCount, writeErrors, i, success_count, failure_count,
          response_times, ret, resolveCalls, resolved, returned, screen,
          metrics, summary>>

argsVars == <<debug_mode, number_of_queries, timeout>>
runVars == <<i, success_count, failure_count, response_times, ret,
             resolveCalls, resolved, returned, screen>>
logVars == <<log_file, log, closeCount, writeErrors>>
outVars == <<metrics, summary>>

\* ---------------------------------------------------------------- Init
Init ==
    /\ pc = "open"
    /\ debug_mode \in BOOLEAN
    /\ number_of_queries \in 0..MaxQueries
    /\ timeout \in Timeouts
    /\ resolver = Unset
    /\ log_file = "unset"
    /\ log = <<>>
    /\ closeCount = 0
    /\ writeErrors = 0
    /\ i = 0
    /\ success_count = 0
    /\ failure_count = 0
    /\ response_times = <<>>
    /\ ret = None
    /\ resolveCalls = <<>>
    /\ resolved = <<>>
    /\ returned = <<>>
    /\ screen = <<>>
    /\ metrics = Unset
    /\ summary = Unset

\* ---------------------------------------------------------------- __main__
\* lines 177-181: open the log file if debug mode is enabled
OpenLog ==
    /\ pc = "open"
    /\ log_file' = IF debug_mode THEN "open" ELSE "none"
    /\ pc' = "configure"
    /\ UNCHANGED <<argsVars, resolver, log, closeCount, writeErrors, runVars, outVars>>

\* lines 9-24: no validation of the timeout, the resolver is always returned
configure_resolver(dns_server, t) ==
    [nameservers |-> <<dns_server>>, timeout |-> t, lifetime |-> t]

\* lines 183-185
ConfigureResolver ==
    /\ pc = "configure"
    /\ resolver' = configure_resolver("server", timeout)
    /\ pc' = "run"
    /\ UNCHANGED <<argsVars, logVars, runVars, outVars>>

\* lines 188-189 and 74-76: enter perform_dns_queries
StartRun ==
    /\ pc = "run"
    /\ success_count' = 0
    /\ failure_count' = 0
    /\ response_times' = <<>>
    /\ i' = 0
    /\ pc' = "loop"
    /\ UNCHANGED <<argsVars, resolver, logVars, ret, resolveCalls, resolved,
                   returned, screen, outVars>>

\* ---------------------------------------------------------------- test_dns_query
SuccessLine(query_number, total_queries, query_time) ==
    [kind |-> "successful", query_number |-> query_number,
     total_queries |-> total_queries, detail |-> <<"Time", query_time>>]
FailedLine(query_number, total_queries) ==
    [kind |-> "failed", query_number |-> query_number,
     total_queries |-> total_queries, detail |-> <<"Error">>]

\* lines 52-56: the handler of `except Exception`; it is entered when
\* resolver.resolve raised and also when the write of line 50 raised.
\* w2 says whether the write of line 55 succeeds.
ExceptHandler(debug, lf, w2, query_number, total_queries, errs) ==
    IF debug
    THEN IF w2
         THEN [raised |-> FALSE, success |-> FALSE, query_time |-> None,
               log |-> Append(lf, FailedLine(query_number, total_queries)),
               writeErrors |-> errs]
         ELSE [raised |-> TRUE, success |-> FALSE, query_time |-> None,
               log |-> lf, writeErrors |-> errs + 1]
    ELSE [raised |-> FALSE, success |-> FALSE, query_time |-> None,
          log |-> lf, writeErrors |-> errs]

\* test_dns_query without the `except Exception`: whatever raises, leaves
test_dns_query_uncaught(debug, lf, r, w1, w2, query_number, total_queries) ==
    IF r.ok
    THEN IF debug /\ ~w1
         THEN [raised |-> TRUE, success |-> FALSE, query_time |-> None,
               log |-> lf, writeErrors |-> 1]
         ELSE [raised |-> FALSE, success |-> TRUE, query_time |-> r.query_time,
               log |-> IF debug
                       THEN Append(lf, SuccessLine(query_number, total_queries, r.query_time))
                       ELSE lf,
               writeErrors |-> 0]
    ELSE [raised |-> TRUE, success |-> FALSE, query_time |-> None,
          log |-> lf, writeErrors |-> 0]

\* test_dns_query logging the 0-based loop index instead of i + 1
test_dns_query_index0(debug, lf, r, w1, w2, query_number, total_queries) ==
    IF r.ok
    THEN IF debug
         THEN IF w1
              THEN [raised |-> FALSE, success |-> TRUE, query_time |-> r.query_time,
                    log |-> Append(lf, SuccessLine(query_number - 1, total_queries, r.query_time)),
                    writeErrors |-> 0]
              ELSE ExceptHandler(debug, lf, w2, query_number - 1, total_queries, 1)
         ELSE [raised |-> FALSE, success |-> TRUE, query_time |-> r.query_time,
               log |-> lf, writeErrors |-> 0]
    ELSE ExceptHandler(debug, lf, w2, query_number - 1, total_queries, 0)

\* lines 43-56: r is what resolver.resolve does, w1 whether the write of
\* line 50 succeeds, w2 whether the write of line 55 succeeds.
test_dns_query(debug, lf, r, w1, w2, query_number, total_queries) ==
    IF r.ok
    THEN IF debug
         THEN IF w1
              THEN [raised |-> FALSE, success |-> TRUE, query_time |-> r.query_time,
                    log |-> Append(lf, SuccessLine(query_number, total_queries, r.query_time)),
                    writeErrors |-> 0]
              ELSE ExceptHandler(debug, lf, w2, query_number, total_queries, 1)
         ELSE [raised |-> FALSE, success |-> TRUE, query_time |-> r.query_time,
               log |-> lf, writeErrors |-> 0]
    ELSE ExceptHandler(debug, lf, w2, query_number, total_queries, 0)

\* ---------------------------------------------------------------- perform_dns_queries
\* a loop that runs its body before testing the bound
LoopHasNextDoWhile(idx, num_queries) == idx < num_queries \/ idx = 0

\* line 78: `for i in range(num_queries)` has another index after idx iterations
LoopHasNext(idx, num_queries) == idx < num_queries

\* lines 78-79: the loop takes the next index and calls test_dns_query;
\* an exception that leaves test_dns_query leaves the loop and the script
TestDnsQuery ==
    /\ pc = "loop"
    /\ LoopHasNext(i, number_of_queries)
    /\ \E r \in ResolveOutcomes, w1, w2 \in BOOLEAN :
        LET res == test_dns_query(debug_mode, log, r, w1, w2, i + 1, number_of_queries)
        IN /\ resolveCalls' = Append(resolveCalls, i + 1)
           /\ resolved' = Append(resolved, r)
           /\ log' = res.log
           /\ writeErrors' = writeErrors + res.writeErrors
           /\ IF res.raised
              THEN /\ pc' = "crashed"
                   /\ UNCHANGED <<ret, returned>>
              ELSE /\ pc' = "fold"
                   /\ ret' = <<res.success, res.query_time>>
                   /\ returned' = Append(returned, <<res.success, res.query_time>>)
    /\ UNCHANGED <<argsVars, resolver, log_file, closeCount, i, success_count,
                   failure_count, response_times, screen, outVars>>

\* the fold counting a success without keeping its sample
FoldDropsSample ==
    /\ pc = "fold"
    /\ IF ret[1]
       THEN /\ success_count' = success_count + 1
            /\ UNCHANGED <<failure_count, response_times>>
       ELSE /\ failure_count' = failure_count + 1
            /\ UNCHANGED <<success_count, response_times>>
    /\ pc' = "progress"
    /\ UNCHANGED <<argsVars, resolver, logVars, i, ret, resolveCalls, resolved,
                   returned, screen, outVars>>

\* the fold inserting the sample at the front of the list
FoldPrepends ==
    /\ pc = "fold"
    /\ IF ret[1]
       THEN /\ success_count' = success_count + 1
            /\ response_times' = <<ret[2]>> \o response_times
            /\ UNCHANGED failure_count
       ELSE /\ failure_count' = failure_count + 1
            /\ UNCHANGED <<success_count, response_times>>
    /\ pc' = "progress"
    /\ UNCHANGED <<argsVars, resolver, logVars, i, ret, resolveCalls, resolved,
                   returned, screen, outVars>>

\* lines 80-84
Fold ==
    /\ pc = "fold"
    /\ IF ret[1]
       THEN /\ success_count' = success_count + 1
            /\ response_times' = Append(response_times, ret[2])
            /\ UNCHANGED failure_count
       ELSE /\ failure_count' = failure_count + 1
            /\ UNCHANGED <<success_count, response_times>>
    /\ pc' = "progress"
    /\ UNCHANGED <<argsVars, resolver, logVars, i, ret, resolveCalls, resolved,
                   returned, screen, outVars>>

\* line 148
bar_length == 30

\* int() of a non-negative float
IntOf(x) == x[2] \div x[3]

\* lines 148-154: the cells update_screen draws for (progress, current, total)
update_screen(progress, current, total) ==
    LET filled_length == IntOf(Float(bar_length * progress[2], progress[3]))
    IN [current |-> current, total |-> total,
        filled |-> filled_length, empty |-> bar_length - filled_length]

\* the reporter called with the 0-based loop index
ProgressIndex0 ==
    /\ pc = "progress"
    /\ IF number_of_queries = 0
       THEN /\ pc' = "crashed"
            /\ UNCHANGED <<screen, i>>
       ELSE /\ screen' = Append(screen,
                   update_screen(Float(i, number_of_queries), i, number_of_queries))
            /\ i' = i + 1
            /\ pc' = "loop"
    /\ UNCHANGED <<argsVars, resolver, logVars, success_count, failure_count,
                   response_times, ret, resolveCalls, resolved, returned, outVars>>

\* lines 86-89: progress = (i + 1) / num_queries raises ZeroDivisionError
\* for num_queries = 0; then update_screen, the pause, and the next index
Progress ==
    /\ pc = "progress"
    /\ IF number_of_queries = 0
       THEN /\ pc' = "crashed"
            /\ UNCHANGED <<screen, i>>
       ELSE /\ screen' = Append(screen,
                   update_screen(Float(i + 1, number_of_queries), i + 1, number_of_queries))
            /\ i' = i + 1
            /\ pc' = "loop"
    /\ UNCHANGED <<argsVars, resolver, logVars, success_count, failure_count,
                   response_times, ret, resolveCalls, resolved, returned, outVars>>

\* lines 78, 91 and 190-191: range(num_queries) is exhausted, the function returns
Return ==
    /\ pc = "loop"
    /\ ~LoopHasNext(i, number_of_queries)
    /\ pc' = "metrics"
    /\ UNCHANGED <<argsVars, resolver, logVars, runVars, outVars>>

\* ---------------------------------------------------------------- summary
\* lines 104-110
calculate_metrics(rt) ==
    IF rt # <<>>
    THEN [max |-> MaxOf(rt), min |-> MinOf(rt), avg |-> Float(SumNum(rt), Len(rt))]
    ELSE [max |-> None, min |-> None, avg |-> None]

\* lines 193-196
CalculateMetrics ==
    /\ pc = "metrics"
    /\ metrics' = calculate_metrics(response_times)
    /\ pc' = "summary"
    /\ UNCHANGED <<argsVars, resolver, logVars, runVars, summary>>

\* lines 128-130: `f"...{x:.2f}ms" if x else "... N/A"`
Figure(x) == IF Truthy(x) THEN <<"ms", x>> ELSE <<"N/A">>

\* lines 125-130: the report text
SummaryText(sc, fc, mx, mn, av) ==
    [kind |-> "summary", successes |-> sc, failures |-> fc,
     max |-> Figure(mx), min |-> Figure(mn), avg |-> Figure(av)]

\* lines 112-135 and 198-199: the report is printed, then written to the
\* log when log_file is not None; w says whether that write succeeds
PrintSummary ==
    /\ pc = "summary"
    /\ summary' = SummaryText(success_count, failure_count,
                              metrics.max, metrics.min, metrics.avg)
    /\ \E w \in BOOLEAN :
        IF log_file # "none"
        THEN IF w
             THEN /\ log' = Append(log, summary')
                  /\ pc' = "close"
                  /\ UNCHANGED writeErrors
             ELSE /\ writeErrors' = writeErrors + 1
                  /\ pc' = "crashed"
                  /\ UNCHANGED log
        ELSE /\ pc' = "close"
             /\ UNCHANGED <<log, writeErrors>>
    /\ UNCHANGED <<argsVars, resolver, log_file, closeCount, runVars, metrics>>

\* lines 201-203
CloseLog ==
    /\ pc = "close"
    /\ IF debug_mode
       THEN /\ log_file' = "closed"
            /\ closeCount' = closeCount + 1
       ELSE UNCHANGED <<log_file, closeCount>>
    /\ pc' = "done"
    /\ UNCHANGED <<argsVars, resolver, log, writeErrors, runVars, outVars>>

\* ---------------------------------------------------------------- specification
Next ==
    \/ OpenLog
    \/ ConfigureResolver
    \/ StartRun
    \/ TestDnsQuery
    \/ Fold
    \/ Progress
    \/ Return
    \/ CalculateMetrics
    \/ PrintSummary
    \/ CloseLog

Spec == Init /\ [][Next]_vars

\* ---------------------------------------------------------------- types
TypeOK ==
    /\ pc \in {"open", "configure", "run", "loop", "fold", "progress",
               "metrics", "summary", "close", "done", "crashed"}
    /\ log_file \in {"unset", "none", "open", "closed"}
    /\ i \in 0..number_of_queries
    /\ success_count \in 0..number_of_queries
    /\ failure_count \in 0..number_of_queries

\* ---------------------------------------------------------------- helpers of the properties
Idx(n) == [k \in 1..n |-> k]
IsPrefix(s, t) == Len(s) <= Len(t) /\ SubSeq(t, 1, Len(s)) = s
IsNA(f) == f[1] = "N/A"

\* between two iterations, or after the loop has returned
AtLoopPoint == pc \in {"loop", "metrics", "summary", "close", "done"}
AfterLoop == pc \in {"metrics", "summary", "close", "done"}
Terminal == pc \in {"done", "crashed"}

\* the query times of the calls for which test_dns_query returned True, in call order
RECURSIVE SuccessTimes(_)
SuccessTimes(rs) ==
    IF rs = <<>> THEN <<>>
    ELSE (IF Head(rs)[1] THEN <<Head(rs)[2]>> ELSE <<>>) \o SuccessTimes(Tail(rs))

ResolveFailures(n) == {k \in 1..n : ~resolved[k].ok}
ResolveSuccesses(n) == {k \in 1..n : resolved[k].ok}

\* ---------------------------------------------------------------- C1
\* C1: before the first query, after each iteration and at return,
\* success_count + failure_count is the number of queries attempted so far
\* and len(response_times) = success_count; after the loop the sum is
\* num_queries.
C1_CountsMatchAttempts ==
    /\ AtLoopPoint =>
         /\ success_count + failure_count = Len(resolveCalls)
         /\ success_count + failure_count = i
         /\ Len(response_times) = success_count
    /\ AfterLoop => success_count + failure_count = number_of_queries

C1_Witness ==
    /\ pc = "done"
    /\ number_of_queries = MaxQueries
    /\ success_count >= 1
    /\ failure_count >= 2

C3_SinkFailureNotFolded ==
    AtLoopPoint =>
        /\ failure_count = Cardinality(ResolveFailures(i))
        /\ Len(response_times) = Cardinality(ResolveSuccesses(i))

\* ---------------------------------------------------------------- C4
\* C4: with logging enabled, in every terminal state of the process,
\* also one reached by an escaping exception, the log file has been closed
\* exactly once.
C4_LogClosedOnEveryExit ==
    (Terminal /\ debug_mode) => (closeCount = 1 /\ log_file = "closed")

\* ---------------------------------------------------------------- C5
\* C5: with timeout <= 0 configure_resolver raises, so the resolver is never
\* built and no query is ever attempted.
C5_TimeoutFailsFast ==
    timeout <= 0 => (resolver = Unset /\ resolveCalls = <<>>)

\* ---------------------------------------------------------------- C6
\* C6: calculate_metrics returns None for all three figures iff there is no
\* sample, and the report shows "N/A" for a figure iff there is no sample,
\* never for only some of the three.
C6_UnavailableIffEmpty ==
    /\ metrics # Unset =>
         /\ (metrics.max = None) <=> (response_times = <<>>)
         /\ (metrics.min = None) <=> (response_times = <<>>)
         /\ (metrics.avg = None) <=> (response_times = <<>>)
    /\ summary # Unset =>
         /\ IsNA(summary.max) <=> (response_times = <<>>)
         /\ IsNA(summary.min) <=> (response_times = <<>>)
         /\ IsNA(summary.avg) <=> (response_times = <<>>)

\* ---------------------------------------------------------------- C7
\* C7: with logging enabled and no write having raised, line k of the log is
\* written during query k, carries k and num_queries, and is a 'successful'
\* line iff query k succeeded; after the run the log holds the num_queries
\* query lines and then the summary; with logging disabled the log is empty.
C7_LogContents ==
    /\ ~debug_mode => log = <<>>
    /\ (debug_mode /\ writeErrors = 0) =>
         /\ pc = "loop" => Len(log) = i
         /\ pc \in {"fold", "progress"} => Len(log) = i + 1
         /\ pc \in {"metrics", "summary"} => Len(log) = number_of_queries
         /\ \A k \in 1..Len(resolved) :
              /\ k <= Len(log)
              /\ log[k].query_number = k
              /\ log[k].total_queries = number_of_queries
              /\ log[k].kind = (IF resolved[k].ok THEN "successful" ELSE "failed")
              /\ k <= Len(returned) => (returned[k][1] <=> resolved[k].ok)
         /\ pc \in {"close", "done"} =>
              /\ Len(log) = number_of_queries + 1
              /\ log[number_of_queries + 1] = summary
              /\ summary.kind = "summary"

C7_Witness ==
    /\ pc = "done"
    /\ debug_mode
    /\ writeErrors = 0
    /\ number_of_queries = MaxQueries
    /\ success_count >= 2
    /\ failure_count >= 1
    /\ Len(log) = MaxQueries + 1

\* ---------------------------------------------------------------- C8
\* C8: response_times is always the query times of the calls that returned
\* success, in call order (a failed call adds nothing), and every step leaves
\* the samples already there in place.
C8_SamplesInOrder ==
    IF pc = "fold"
    THEN response_times = SuccessTimes(SubSeq(returned, 1, Len(returned) - 1))
    ELSE response_times = SuccessTimes(returned)

C8_SamplesAppendOnly ==
    [](C8_SamplesInOrder) /\ [][IsPrefix(response_times, response_times')]_vars

\* outcomes S, S, F, S, F with a query time of 10
C8_Witness ==
    /\ pc = "done"
    /\ number_of_queries = 5
    /\ returned = <<<<TRUE, Float(10, 1)>>, <<TRUE, Float(10, 1)>>, <<FALSE, None>>,
                    <<TRUE, Float(10, 1)>>, <<FALSE, None>>>>
    /\ success_count = 3
    /\ failure_count = 2
    /\ response_times = <<Float(10, 1), Float(10, 1), Float(10, 1)>>

\* ---------------------------------------------------------------- C9
\* C9: update_screen is called once per query, after the fold of that query
\* and before the next query, with current = 1, 2, ..., total; the filled
\* cells are floor(30 * current / total), in 0..30, non-decreasing, and 30
\* at current = total.
C9_ProgressOncePerQuery ==
    /\ Len(screen) = i
    /\ pc \in {"fold", "progress"} => Len(resolveCalls) = Len(screen) + 1
    /\ pc = "fold" => success_count + failure_count = Len(screen)
    /\ pc = "progress" => success_count + failure_count = Len(screen) + 1
    /\ pc = "loop" => Len(resolveCalls) = Len(screen)
    /\ AfterLoop => Len(screen) = number_of_queries
    /\ \A k \in 1..Len(screen) :
         /\ screen[k].current = k
         /\ screen[k].total = number_of_queries
         /\ screen[k].filled = (30 * k) \div number_of_queries
         /\ screen[k].filled \in 0..30
         /\ screen[k].filled + screen[k].empty = 30
         /\ k > 1 => screen[k - 1].filled <= screen[k].filled
         /\ k = number_of_queries => screen[k].filled = 30

C9_Witness ==
    /\ pc = "done"
    /\ Len(screen) = number_of_queries
    /\ number_of_queries >= 3
    /\ \E k \in 1..Len(screen) : (30 * k) % number_of_queries # 0

\* ---------------------------------------------------------------- C10
\* C10: with queries = 0 no resolution is attempted, update_screen is never
\* called, the division by num_queries is never reached, and the summary
\* shows 0 successes, 0 failures and N/A for all three figures; the only
\* way the process fails is a log write that raises.
C10_ZeroQueries ==
    number_of_queries = 0 =>
        /\ resolveCalls = <<>>
        /\ screen = <<>>
        /\ pc \notin {"fold", "progress"}
        /\ pc = "crashed" => writeErrors >= 1
        /\ pc \in {"close", "done"} => summary # Unset
        /\ summary # Unset =>
             /\ summary.successes = 0
             /\ summary.failures = 0
             /\ IsNA(summary.max) /\ IsNA(summary.min) /\ IsNA(summary.avg)

C10_Witness ==
    /\ number_of_queries = 0
    /\ pc = "done"
    /\ summary # Unset
    /\ metrics = [max |-> None, min |-> None, avg |-> None]

====
